---- MODULE Spec2Model ----
(***************************************************************************)
(* voicevox_engine: the kana-notation codec (parse_kana / create_kana,    *)
(* imported by run.py from voicevox_engine.kana_parser) and the HTTP      *)
(* operations of run.py that call it.                                      *)
(*                                                                         *)
(* Notation characters are written with one-character ASCII stand-ins:    *)
(*   "K"  katakana KI (U+30AD), a one-character kana token                *)
(*   "y"  small katakana YA (U+30E3); "Ky" is the two-character token KYA,*)
(*        "y" alone is no token of the table                              *)
(*   "ka" "ra" "to" "ma"  katakana KA, RA, TO, MA, one character each,    *)
(*        used by the worked example of the notation                      *)
(*   "_"  devoice marker          "'"  accent mark                        *)
(*   "?"  full-width question mark (U+FF1F)                               *)
(*   "/"  phrase separator        ","  ideographic comma (U+3001), the    *)
(*        phrase separator that inserts a pause                           *)
(* A notation string is a sequence of such characters.                    *)
(***************************************************************************)
EXTENDS Integers, Sequences, FiniteSets, TLC

\* Longest notation string given to parse_kana.
MaxLen == 6

\* Largest total number of moras of a phrase list given directly to create_kana.
MaxMoras == 3

UNVOICE_SYMBOL == "_"
ACCENT_SYMBOL == "'"
NOPAUSE_DELIMITER == "/"
PAUSE_DELIMITER == ","
WIDE_INTERROGATION_MARK == "?"

Chars == {"K", "y", UNVOICE_SYMBOL, ACCENT_SYMBOL, WIDE_INTERROGATION_MARK,
          NOPAUSE_DELIMITER, PAUSE_DELIMITER}

Strings == UNION {[1..n -> Chars] : n \in 0..MaxLen}

\* ------------------------------------------------------------------------
\* Phoneme/Kana Table: notation token -> (consonant, vowel).
KanaTable ==
    (<<"K">> :> [consonant |-> "k", vowel |-> "i"]) @@
    (<<"K", "y">> :> [consonant |-> "ky", vowel |-> "a"]) @@
    (<<"ka">> :> [consonant |-> "k", vowel |-> "a"]) @@
    (<<"ra">> :> [consonant |-> "r", vowel |-> "a"]) @@
    (<<"to">> :> [consonant |-> "t", vowel |-> "o"]) @@
    (<<"ma">> :> [consonant |-> "m", vowel |-> "a"])

\* Length of the longest token of the table.
MaxTokenLen == 2

\* A devoiced mora carries the upper-case variant of its vowel phoneme.
Unvoiced(vowel) ==
    IF vowel = "i" THEN "I" ELSE IF vowel = "a" THEN "A"
    ELSE IF vowel = "o" THEN "O" ELSE vowel

IsUnvoiced(vowel) == vowel \in {"A", "I", "U", "E", "O"}

Voiced(vowel) ==
    IF vowel = "I" THEN "i" ELSE IF vowel = "A" THEN "a"
    ELSE IF vowel = "O" THEN "o" ELSE vowel

\* Mora(text, consonant, vowel): pitch and the lengths are 0 after parsing and
\* play no part in the notation.
MakeMoraAlwaysDevoiced(token, devoiced) ==
    [text |-> token,
     consonant |-> KanaTable[token].consonant,
     vowel |-> Unvoiced(KanaTable[token].vowel)]

MakeMora(token, devoiced) ==
    [text |-> token,
     consonant |-> KanaTable[token].consonant,
     vowel |-> IF devoiced THEN Unvoiced(KanaTable[token].vowel)
               ELSE KanaTable[token].vowel]

\* The pause mora attached to a phrase that a PAUSE_DELIMITER ends.
PauseMora == [text |-> <<PAUSE_DELIMITER>>, consonant |-> "", vowel |-> "pau"]

\* Reverse mapping: the canonical token of a (consonant, vowel) pair.
CanonicalToken(consonant, vowel) ==
    CHOOSE t \in DOMAIN KanaTable :
        /\ KanaTable[t].consonant = consonant
        /\ KanaTable[t].vowel = Voiced(vowel)

\* ------------------------------------------------------------------------
\* Tokenizer: longest match against the Kana Table first, then the
\* one-character control symbols.
LongestMatch(s, pos) ==
    LET fits == {n \in 1..MaxTokenLen :
                    /\ pos + n - 1 <= Len(s)
                    /\ SubSeq(s, pos, pos + n - 1) \in DOMAIN KanaTable}
    IN IF fits = {} THEN 0 ELSE CHOOSE n \in fits : \A m \in fits : m <= n

\* Characters a control symbol takes.
ControlLenStuck(c) == IF c = UNVOICE_SYMBOL THEN 0 ELSE 1

ControlLen(c) == 1

NextToken(s, pos) ==
    LET n == LongestMatch(s, pos)
    IN IF n > 0 THEN [type |-> "Kana", len |-> n]
       ELSE IF s[pos] = UNVOICE_SYMBOL
            THEN [type |-> "Devoice", len |-> ControlLen(s[pos])]
       ELSE IF s[pos] = ACCENT_SYMBOL
            THEN [type |-> "AccentMark", len |-> ControlLen(s[pos])]
       ELSE IF s[pos] = WIDE_INTERROGATION_MARK
            THEN [type |-> "Interrogative", len |-> ControlLen(s[pos])]
       ELSE [type |-> "Unknown", len |-> 0]

\* The text from pos to the end of s.
Suffix(s, pos) == SubSeq(s, pos, Len(s))

\* ------------------------------------------------------------------------
VARIABLES
    text,             \* the notation string given to parse_kana
    pc,               \* "parse_kana" | "phrase" | "create_kana" | "done"
    phrase_base,      \* parse_kana: where the next phrase group starts
    delimiter,        \* the separator that ends the current group, "" at the end
    phrase,           \* the current phrase group
    base_index,       \* tokenizer position in phrase
    moras,            \* moras appended in the current phrase
    accent_index,     \* 0: no accent mark read in this phrase yet
    devoice,          \* a devoice marker precedes the next kana
    is_interrogative, \* the current phrase ended in the interrogative mark
    parsed_results,   \* the accent phrases parsed so far
    response,         \* /accent_phrases: the HTTP response, status 0 while pending
    accent_phrases,   \* the argument of create_kana
    enc_i,            \* create_kana: index of the next phrase to render
    kana,             \* create_kana: the text rendered so far
    replace_mora_data_calls, \* calls of engine.replace_mora_data so far
    body,             \* a request body: accent phrases as the JSON gives them
    query,            \* the AccentPhrase list constructed from body
    epc,              \* "idle" | "request" | "constructed", then "done" (the
                      \* tokens are made or the request failed), "mora_pitch"
                      \* or "mora_length" (that handler returned)
    estatus,          \* HTTP status of that request, 0 while pending
    speaker,          \* the speaker id of that request, 0 before the handler runs
    tokens,           \* query2tokens: the tokens returned
    result,           \* replace_mora_pitch / replace_phoneme_length: the list returned
    text2speech,      \* SynthesisEngineESPNet: style id -> Text2Speech instance, 0 for None
    token_id_converter, \* SynthesisEngineESPNet: style id -> TokenIDConverter, 0 for None
    synthesis_engines, \* generate_app: core version -> engine
    latest_core_version, \* generate_app: the version used when none is asked for
    hpc,              \* "off" | "idle" (the app is up) | "done" (a request was served)
    request,          \* that request: the operation and its core_version
    engine,           \* the engine get_engine returned to its handler
    status,           \* its HTTP status
    engine_calls,     \* the engine operations its handler performed, in order
    preset_loads,     \* the calls of preset_loader.load_presets it made
    thread,           \* worker thread -> the engine call it runs and where it is
    ncalls,           \* engine calls started so far
    constructed,      \* style id -> instances constructed so far, per class
    lazy_done,        \* style ids for which some _lazy_init ran to its end
    completed,        \* style ids targeted by a call that returned
    used,             \* instances a synthesis has used
    replaced          \* instances an assignment in _lazy_init has overwritten

codecVars == <<text, pc, phrase_base, delimiter, phrase, base_index, moras,
               accent_index, devoice, is_interrogative, parsed_results, response,
               accent_phrases, enc_i, kana, replace_mora_data_calls>>

queryVars == <<body, query, epc, estatus, speaker, tokens, result>>

engineVars == <<text2speech, token_id_converter>>

handlerVars == <<synthesis_engines, latest_core_version, hpc, request, engine,
                 status, engine_calls, preset_loads>>

threadVars == <<thread, ncalls, constructed, lazy_done, completed, used, replaced>>

\* Everything but the state of the kana codec and of /accent_phrases.
otherVars == <<queryVars, engineVars, handlerVars, threadVars>>

\* Everything but the state of the requests with a body and of the engine.
outsideEngine == <<codecVars, handlerVars, threadVars>>

\* Everything but the engine and the threads that call it.
outsideLazy == <<codecVars, queryVars, handlerVars>>

vars == <<codecVars, otherVars>>

\* engine_config.speakers[*].styles[*].id
StyleIds == {1, 2}

\* No request with a body of accent phrases is in progress.
QueryIdle ==
    /\ body = <<>>
    /\ query = <<>>
    /\ epc = "idle"
    /\ estatus = 0
    /\ speaker = 0
    /\ tokens = <<>>
    /\ result = <<>>

\* SynthesisEngineESPNet.__init__ with load_all_models = False: every style's
\* text2speech and token_id_converter are None.
EngineUnloaded ==
    /\ text2speech = [id \in StyleIds |-> 0]
    /\ token_id_converter = [id \in StyleIds |-> 0]

\* Python's None where a core version is optional.
NoVersion == <<>>

NoEngine == "None"

\* No request that selects an engine is being looked at.
HandlersOff ==
    /\ synthesis_engines = <<>>
    /\ latest_core_version = NoVersion
    /\ hpc = "off"
    /\ request = <<>>
    /\ engine = NoEngine
    /\ status = 0
    /\ engine_calls = <<>>
    /\ preset_loads = 0

\* No worker thread is being looked at.
ThreadsOff ==
    /\ thread = <<>>
    /\ ncalls = 0
    /\ constructed = <<>>
    /\ lazy_done = {}
    /\ completed = {}
    /\ used = {}
    /\ replaced = {}

OtherIdle == QueryIdle /\ EngineUnloaded /\ HandlersOff /\ ThreadsOff

scanVars == <<phrase, base_index, moras, accent_index, devoice, is_interrogative>>
encVars == <<accent_phrases, enc_i, kana>>

\* ParseKanaErrorCode: the name of each code and the placeholders of its
\* message format.
ParseKanaErrorCode ==
    [UNKNOWN_TEXT |-> {"text"},
     ACCENT_TOP |-> {"text"},
     ACCENT_TWICE |-> {"text"},
     ACCENT_NOTFOUND |-> {"text"},
     EMPTY_PHRASE |-> {"position"},
     INTERROGATION_MARK_NOT_AT_END |-> {"text"},
     INFINITE_LOOP |-> {}]

\* errcode.value.format(**kwargs): the message of the code with its
\* placeholders filled from the keyword arguments.
Format(errcode, kwargs) ==
    [fmt |-> errcode, args |-> [k \in ParseKanaErrorCode[errcode] |-> kwargs[k]]]

\* ParseKanaError(errcode, **kwargs)
ParseKanaError(errcode, kwargs) ==
    [errcode |-> errcode, errname |-> errcode, kwargs |-> kwargs,
     text |-> Format(errcode, kwargs)]

\* ParseKanaBadRequest(err).dict()
ParseKanaBadRequestBareMessage(err) ==
    [text |-> err.text, error_name |-> "", error_args |-> <<>>]

ParseKanaBadRequest(err) ==
    [text |-> err.text, error_name |-> err.errname, error_args |-> err.kwargs]

\* The keyword arguments parse_kana raises a code with: the offending text,
\* or the phrase position for an empty phrase.
KwArgs(errname, txt, pos) ==
    IF errname = "EMPTY_PHRASE" THEN [k \in {"position"} |-> pos]
    ELSE IF errname = "INFINITE_LOOP" THEN <<>>
    ELSE [k \in {"text"} |-> txt]

NoDetail == <<>>

NoResponse ==
    [status |-> 0, accent_phrases |-> <<>>, error_name |-> "",
     text |-> <<>>, position |-> 0, detail |-> NoDetail]

\* accent_phrases(): parse_kana raised ParseKanaError(errcode, text=.., position=..):
\* HTTPException(status_code=400, detail=ParseKanaBadRequest(err).dict()).
HTTP400Partial(errname, txt, pos) ==
    [status |-> 400, accent_phrases |-> parsed_results, error_name |-> errname,
     text |-> txt, position |-> pos,
     detail |-> ParseKanaBadRequest(ParseKanaError(errname, KwArgs(errname, txt, pos)))]

HTTP400(errname, txt, pos) ==
    [status |-> 400, accent_phrases |-> <<>>, error_name |-> errname,
     text |-> txt, position |-> pos,
     detail |-> ParseKanaBadRequest(ParseKanaError(errname, KwArgs(errname, txt, pos)))]

\* accent_phrases(): parse_kana returned; the phrases go through
\* engine.replace_mora_data and are the response body.
HTTP200(phrases) ==
    [status |-> 200, accent_phrases |-> phrases, error_name |-> "",
     text |-> <<>>, position |-> 0, detail |-> NoDetail]

\* raise ParseKanaError: the request ends with the 400 response.
Raise(errname, txt, pos) ==
    /\ response' = HTTP400(errname, txt, pos)
    /\ pc' = "done"

Init ==
    /\ text \in Strings
    /\ pc = "parse_kana"
    /\ phrase_base = 1
    /\ delimiter = ""
    /\ phrase = <<>>
    /\ base_index = 1
    /\ moras = <<>>
    /\ accent_index = 0
    /\ devoice = FALSE
    /\ is_interrogative = FALSE
    /\ parsed_results = <<>>
    /\ response = NoResponse
    /\ accent_phrases = <<>>
    /\ enc_i = 1
    /\ kana = <<>>
    /\ replace_mora_data_calls = 0
    /\ OtherIdle

\* ------------------------------------------------------------------------
\* parse_kana: the next phrase group, up to the next delimiter or the end.
IsDelimiter(c) == c \in {NOPAUSE_DELIMITER, PAUSE_DELIMITER}

GroupEnd(s, from) ==
    LET ends == {i \in from..Len(s) : IsDelimiter(s[i])}
    IN IF ends = {} THEN Len(s) + 1 ELSE CHOOSE i \in ends : \A j \in ends : i <= j

\* The 1-based position reported for an empty phrase group.
EmptyPhrasePositionZeroBased == Len(parsed_results)

EmptyPhrasePosition == Len(parsed_results) + 1

\* The mora list a phrase group starts with.
CarriedMoras == moras

NewPhraseMoras == <<>>

NextPhrase ==
    /\ pc = "parse_kana"
    /\ LET i == GroupEnd(text, phrase_base)
           group == SubSeq(text, phrase_base, i - 1)
       IN IF group = <<>>
          THEN /\ Raise("EMPTY_PHRASE", <<>>, EmptyPhrasePosition)
               /\ UNCHANGED <<phrase_base, delimiter, scanVars>>
          ELSE /\ phrase' = group
               /\ delimiter' = IF i <= Len(text) THEN text[i] ELSE ""
               /\ phrase_base' = i + 1
               /\ base_index' = 1
               /\ moras' = NewPhraseMoras
               /\ accent_index' = 0
               /\ devoice' = FALSE
               /\ is_interrogative' = FALSE
               /\ pc' = "phrase"
               /\ UNCHANGED response
    /\ UNCHANGED <<text, parsed_results, encVars, replace_mora_data_calls>>
    /\ UNCHANGED otherVars

\* ------------------------------------------------------------------------
\* The token walk over one phrase group.
Scanning == pc = "phrase" /\ base_index <= Len(phrase)

Token == NextToken(phrase, base_index)

\* The position after a token; the tokenizer's guard requires it to move.
Advance(pos, tok) == pos + tok.len

\* Kana: closes the mora under construction and appends it; no match is a
\* lexical failure carrying the unmatched suffix.
ReadKana ==
    /\ Scanning
    /\ Token.type \in {"Kana", "Unknown"}
    /\ IF Token.type = "Unknown"
       THEN /\ Raise("UNKNOWN_TEXT", Suffix(phrase, base_index), 0)
            /\ UNCHANGED scanVars
       ELSE IF Advance(base_index, Token) <= base_index
       THEN /\ Raise("INFINITE_LOOP", <<>>, 0)
            /\ UNCHANGED scanVars
       ELSE /\ moras' = Append(moras,
                   MakeMora(SubSeq(phrase, base_index, base_index + Token.len - 1),
                            devoice))
            /\ devoice' = FALSE
            /\ base_index' = Advance(base_index, Token)
            /\ UNCHANGED <<phrase, accent_index, is_interrogative, pc, response>>
    /\ UNCHANGED <<text, phrase_base, delimiter, parsed_results, encVars,
                   replace_mora_data_calls>>
    /\ UNCHANGED otherVars

\* Devoice: legal only immediately before a kana token.
ReadDevoice ==
    /\ Scanning
    /\ Token.type = "Devoice"
    /\ IF Advance(base_index, Token) <= base_index
       THEN /\ Raise("INFINITE_LOOP", <<>>, 0)
            /\ UNCHANGED scanVars
       ELSE IF LongestMatch(phrase, Advance(base_index, Token)) = 0
       THEN /\ Raise("UNKNOWN_TEXT", Suffix(phrase, base_index), 0)
            /\ UNCHANGED scanVars
       ELSE /\ devoice' = TRUE
            /\ base_index' = Advance(base_index, Token)
            /\ UNCHANGED <<phrase, moras, accent_index, is_interrogative, pc, response>>
    /\ UNCHANGED <<text, phrase_base, delimiter, parsed_results, encVars,
                   replace_mora_data_calls>>
    /\ UNCHANGED otherVars

\* Whether this phrase already has its accent mark.
AccentNeverTwice(idx) == FALSE

AccentAlreadyRead(idx) == idx # 0

\* The accent index recorded at an accent mark.
AccentIndexOffByOne(ms) == Len(ms) + 1

AccentIndex(ms) == Len(ms)

ReadAccent ==
    /\ Scanning
    /\ Token.type = "AccentMark"
    /\ IF Advance(base_index, Token) <= base_index
       THEN /\ Raise("INFINITE_LOOP", <<>>, 0)
            /\ UNCHANGED scanVars
       ELSE IF Len(moras) = 0
       THEN /\ Raise("ACCENT_TOP", phrase, 0)
            /\ UNCHANGED scanVars
       ELSE IF AccentAlreadyRead(accent_index)
       THEN /\ Raise("ACCENT_TWICE", phrase, 0)
            /\ UNCHANGED scanVars
       ELSE /\ accent_index' = AccentIndex(moras)
            /\ base_index' = Advance(base_index, Token)
            /\ UNCHANGED <<phrase, moras, devoice, is_interrogative, pc, response>>
    /\ UNCHANGED <<text, phrase_base, delimiter, parsed_results, encVars,
                   replace_mora_data_calls>>
    /\ UNCHANGED otherVars

\* Where the interrogative mark may stand: at the end of an accent phrase.
InterrogationOnlyLastPhrase(pos, phr, delim) == pos = Len(phr) /\ delim = ""

InterrogationAtEnd(pos, phr, delim) == pos = Len(phr)

ReadInterrogative ==
    /\ Scanning
    /\ Token.type = "Interrogative"
    /\ IF Advance(base_index, Token) <= base_index
       THEN /\ Raise("INFINITE_LOOP", <<>>, 0)
            /\ UNCHANGED scanVars
       ELSE IF ~InterrogationAtEnd(base_index, phrase, delimiter)
       THEN /\ Raise("INTERROGATION_MARK_NOT_AT_END", phrase, 0)
            /\ UNCHANGED scanVars
       ELSE /\ is_interrogative' = TRUE
            /\ base_index' = Advance(base_index, Token)
            /\ UNCHANGED <<phrase, moras, accent_index, devoice, pc, response>>
    /\ UNCHANGED <<text, phrase_base, delimiter, parsed_results, encVars,
                   replace_mora_data_calls>>
    /\ UNCHANGED otherVars

\* The pause mora of a parsed phrase, <<>> for None: set when the delimiter
\* that ends the phrase is the pause delimiter.
PauseOnEveryDelimiter(delim) == IF delim # "" THEN <<PauseMora>> ELSE <<>>

PauseFor(delim) == IF delim = PAUSE_DELIMITER THEN <<PauseMora>> ELSE <<>>

\* The phrase group is consumed: it must have an accent; the phrase is
\* appended, and after the last group parse_kana returns.
EndPhrase ==
    /\ pc = "phrase"
    /\ base_index > Len(phrase)
    /\ IF accent_index = 0
       THEN /\ Raise("ACCENT_NOTFOUND", phrase, 0)
            /\ UNCHANGED <<parsed_results, encVars, replace_mora_data_calls>>
       ELSE LET ap == [moras |-> moras, accent |-> accent_index,
                       pause_mora |-> PauseFor(delimiter),
                       is_interrogative |-> is_interrogative]
                all == Append(parsed_results, ap)
            IN /\ parsed_results' = all
               /\ IF delimiter = ""
                  THEN /\ replace_mora_data_calls' = replace_mora_data_calls + 1
                       /\ response' = HTTP200(all)
                       /\ accent_phrases' = all
                       /\ pc' = "create_kana"
                       /\ UNCHANGED <<enc_i, kana>>
                  ELSE /\ pc' = "parse_kana"
                       /\ UNCHANGED <<response, encVars, replace_mora_data_calls>>
    /\ UNCHANGED <<text, phrase_base, delimiter, scanVars>>
    /\ UNCHANGED otherVars

\* ------------------------------------------------------------------------
\* create_kana: renders accent phrases back into notation text.
RECURSIVE MorasKana(_, _, _)
MorasKana(ms, accent, j) ==
    IF j > Len(ms) THEN <<>>
    ELSE (IF IsUnvoiced(ms[j].vowel) THEN <<UNVOICE_SYMBOL>> ELSE <<>>)
         \o CanonicalToken(ms[j].consonant, ms[j].vowel)
         \o (IF j = accent THEN <<ACCENT_SYMBOL>> ELSE <<>>)
         \o MorasKana(ms, accent, j + 1)

\* The interrogative mark of a rendered phrase.
InterrogativeOnlyOnLast(ap, last) ==
    IF ap.is_interrogative /\ last THEN <<WIDE_INTERROGATION_MARK>> ELSE <<>>

InterrogativeKana(ap, last) ==
    IF ap.is_interrogative THEN <<WIDE_INTERROGATION_MARK>> ELSE <<>>

\* The separator after a rendered phrase: none after the last one.
SeparatorAlsoAfterLast(ap, last) ==
    IF ap.pause_mora = <<>> THEN <<NOPAUSE_DELIMITER>> ELSE <<PAUSE_DELIMITER>>

SeparatorKana(ap, last) ==
    IF last THEN <<>>
    ELSE IF ap.pause_mora = <<>> THEN <<NOPAUSE_DELIMITER>>
    ELSE <<PAUSE_DELIMITER>>

PhraseKana(ap, last) ==
    MorasKana(ap.moras, ap.accent, 1)
    \o InterrogativeKana(ap, last)
    \o SeparatorKana(ap, last)

CreateKanaPhrase ==
    /\ pc = "create_kana"
    /\ enc_i <= Len(accent_phrases)
    /\ kana' = kana \o PhraseKana(accent_phrases[enc_i], enc_i = Len(accent_phrases))
    /\ enc_i' = enc_i + 1
    /\ pc' = IF enc_i = Len(accent_phrases) THEN "done" ELSE "create_kana"
    /\ UNCHANGED <<text, phrase_base, delimiter, scanVars, parsed_results,
                   response, accent_phrases, replace_mora_data_calls>>
    /\ UNCHANGED otherVars

Next ==
    \/ NextPhrase
    \/ ReadKana
    \/ ReadDevoice
    \/ ReadAccent
    \/ ReadInterrogative
    \/ EndPhrase
    \/ CreateKanaPhrase

Spec == Init /\ [][Next]_vars

\* ------------------------------------------------------------------------
\* create_kana on accent phrases built by application logic: every list of
\* phrases that satisfies the data-model invariants (moras non-empty,
\* 1 <= accent <= len(moras)), up to MaxMoras moras in all.
Moras ==
    {MakeMora(t, d) :
        t \in {u \in DOMAIN KanaTable : \A i \in 1..Len(u) : u[i] \in Chars},
        d \in BOOLEAN}

RECURSIVE SumTo(_, _)
SumTo(lens, k) == IF k = 0 THEN 0 ELSE lens[k] + SumTo(lens, k - 1)

\* The mora counts of the phrases of a list: at least one mora per phrase.
Shapes ==
    UNION {{lens \in [1..n -> 1..MaxMoras] : SumTo(lens, n) <= MaxMoras} :
              n \in 1..MaxMoras}

\* The phrase list of shape lens whose moras are, in order, those of flat,
\* with accents a, pause moras p and interrogative flags q.
PhraseList(lens, flat, a, p, q) ==
    [k \in 1..Len(lens) |->
        [moras |-> SubSeq(flat, SumTo(lens, k - 1) + 1, SumTo(lens, k)),
         accent |-> a[k],
         pause_mora |-> p[k],
         is_interrogative |-> q[k]]]

InitEncode ==
    /\ \E lens \in Shapes :
       \E flat \in [1..SumTo(lens, Len(lens)) -> Moras] :
       \E a \in [1..Len(lens) -> 1..MaxMoras] :
       \E p \in [1..Len(lens) -> {<<>>, <<PauseMora>>}] :
       \E q \in [1..Len(lens) -> BOOLEAN] :
          /\ \A k \in 1..Len(lens) : a[k] <= lens[k]
          /\ accent_phrases = PhraseList(lens, flat, a, p, q)
    /\ pc = "create_kana"
    /\ text = <<>>
    /\ phrase_base = 1
    /\ delimiter = ""
    /\ phrase = <<>>
    /\ base_index = 1
    /\ moras = <<>>
    /\ accent_index = 0
    /\ devoice = FALSE
    /\ is_interrogative = FALSE
    /\ parsed_results = <<>>
    /\ response = NoResponse
    /\ enc_i = 1
    /\ kana = <<>>
    /\ replace_mora_data_calls = 0
    /\ OtherIdle

NextEncode == CreateKanaPhrase

SpecEncode == InitEncode /\ [][NextEncode]_vars

\* ------------------------------------------------------------------------
\* The worked example of the notation, KA ' RA / TO ' MA TO ?, given to
\* /accent_phrases with is_kana = true, together with every string that
\* differs from it in one character.
Scenario == <<"ka", "'", "ra", "/", "to", "'", "ma", "to", "?">>

ScenarioChars == Chars \cup {"ka", "ra", "to", "ma"}

ScenarioTexts ==
    {Scenario} \cup
    {[Scenario EXCEPT ![i] = c] : i \in 1..Len(Scenario), c \in ScenarioChars}

InitScenario ==
    /\ text \in ScenarioTexts
    /\ pc = "parse_kana"
    /\ phrase_base = 1
    /\ delimiter = ""
    /\ phrase = <<>>
    /\ base_index = 1
    /\ moras = <<>>
    /\ accent_index = 0
    /\ devoice = FALSE
    /\ is_interrogative = FALSE
    /\ parsed_results = <<>>
    /\ response = NoResponse
    /\ accent_phrases = <<>>
    /\ enc_i = 1
    /\ kana = <<>>
    /\ replace_mora_data_calls = 0
    /\ OtherIdle

SpecScenario == InitScenario /\ [][Next]_vars

\* ------------------------------------------------------------------------
\* No kana notation is being parsed or rendered.
CodecOff ==
    /\ text = <<>>
    /\ pc = "done"
    /\ phrase_base = 1
    /\ delimiter = ""
    /\ phrase = <<>>
    /\ base_index = 1
    /\ moras = <<>>
    /\ accent_index = 0
    /\ devoice = FALSE
    /\ is_interrogative = FALSE
    /\ parsed_results = <<>>
    /\ response = NoResponse
    /\ accent_phrases = <<>>
    /\ enc_i = 1
    /\ kana = <<>>
    /\ replace_mora_data_calls = 0

\* ------------------------------------------------------------------------
\* Requests whose body carries accent phrases (/mora_pitch, /mora_length,
\* /synthesis), served by a SynthesisEngineESPNet.

\* Most accent phrases in a request body.
MaxPhrases == 2

\* Most moras, in all, in a request body.
MaxQueryMoras == 3

\* Python's None where a string is optional.
None == "None"

\* Style id -> StyleConfig.g2p
G2P == (1 :> "pyopenjtalk_prosody") @@ (2 :> "pyopenjtalk_accent_with_pause")

\* speaker ids of a request: the configured styles and one that is not.
SpeakerIds == StyleIds \cup {3}

\* Mora values of a request body: a devoiced mora with a consonant, and the
\* moraic nasal, which has none.
QueryMoras ==
    {[text |-> <<"K">>, consonant |-> "k", consonant_length |-> 1,
      vowel |-> "I", vowel_length |-> 2, pitch |-> 5],
     [text |-> <<"n">>, consonant |-> None, consonant_length |-> 0,
      vowel |-> "N", vowel_length |-> 1, pitch |-> 0]}

QueryPauseMora ==
    [text |-> <<PAUSE_DELIMITER>>, consonant |-> None, consonant_length |-> 0,
     vowel |-> "pau", vowel_length |-> 0, pitch |-> 0]

\* The mora counts of the phrases of a body; a phrase may have no mora.
QueryShapes ==
    UNION {{lens \in [1..n -> 0..MaxQueryMoras] : SumTo(lens, n) <= MaxQueryMoras} :
              n \in 0..MaxPhrases}

\* How the accent of a phrase of a body can be off: the field is missing, it
\* is 0, or it is one more than the number of moras.
AccentFaults == {"missing", "zero", "over"}

\* The JSON of the accent phrases: accent is <<n>>, or <<>> when the field is
\* missing. Phrase number bad (if any) has the accent fault how.
RawPhrases(lens, flat, a, bad, how, p, q) ==
    [k \in 1..Len(lens) |->
        [moras |-> SubSeq(flat, SumTo(lens, k - 1) + 1, SumTo(lens, k)),
         accent |-> IF k # bad THEN <<a[k]>>
                    ELSE IF how = "missing" THEN <<>>
                    ELSE IF how = "zero" THEN <<0>>
                    ELSE <<lens[k] + 1>>,
         pause_mora |-> p[k],
         is_interrogative |-> q[k]]]

\* AccentPhrase(**raw): pydantic checks that the required fields are present
\* and have their types, and nothing else.
FieldsValid(raw) == raw.accent # <<>>

AccentPhrase(raw) ==
    [moras |-> raw.moras,
     accent |-> raw.accent[1],
     pause_mora |-> raw.pause_mora,
     is_interrogative |-> raw.is_interrogative]

\* The bodies of the requests: any number of phrases and moras within the
\* bounds, at most one phrase with no mora or with an accent fault, the
\* others with 1 <= accent <= len(moras).
InitEngine ==
    /\ \E lens \in QueryShapes :
       \E bad \in 0..Len(lens) :
       \E how \in AccentFaults :
       \E a \in [1..Len(lens) -> 1..MaxQueryMoras] :
          /\ bad = 0 => how = "missing"
          /\ \A k \in 1..Len(lens) :
                IF k = bad THEN a[k] = 1 ELSE lens[k] >= 1 /\ a[k] <= lens[k]
          /\ \E flat \in [1..SumTo(lens, Len(lens)) -> QueryMoras] :
             \E p \in [1..Len(lens) -> {<<>>, <<QueryPauseMora>>}] :
             \E q \in [1..Len(lens) -> BOOLEAN] :
                body = RawPhrases(lens, flat, a, bad, how, p, q)
    /\ query = <<>>
    /\ epc = "request"
    /\ estatus = 0
    /\ speaker = 0
    /\ tokens = <<>>
    /\ result = <<>>
    /\ EngineUnloaded
    /\ HandlersOff
    /\ ThreadsOff
    /\ CodecOff

\* The body is turned into List[AccentPhrase] before the handler runs; a body
\* that does not validate is answered with 422.
ConstructAccentPhrases ==
    /\ epc = "request"
    /\ IF \A k \in 1..Len(body) : FieldsValid(body[k])
       THEN /\ query' = [k \in 1..Len(body) |-> AccentPhrase(body[k])]
            /\ epc' = "constructed"
            /\ UNCHANGED estatus
       ELSE /\ epc' = "done"
            /\ estatus' = 422
            /\ UNCHANGED query
    /\ UNCHANGED <<body, speaker, tokens, result, engineVars, outsideEngine>>

\* ------------------------------------------------------------------------
\* query2tokens
RECURSIVE ConcatUpTo(_, _)
ConcatUpTo(segs, n) == IF n = 0 THEN <<>> ELSE ConcatUpTo(segs, n - 1) \o segs[n]

\* str.lower() on the phoneme strings in use.
Lower(str) ==
    CASE str = "A" -> "a"
      [] str = "I" -> "i"
      [] str = "U" -> "u"
      [] str = "E" -> "e"
      [] str = "O" -> "o"
      [] str = "N" -> "n"
      [] OTHER -> str

\* The pitch bracket after mora j (0-based) of a phrase.
ProsodyBracketRiseFirst(accent, j) ==
    IF j = 0 THEN <<"[">>
    ELSE IF accent = j + 1 THEN <<"]">>
    ELSE <<>>

ProsodyBracket(accent, j) ==
    IF accent = j + 1 \/ j = 0
    THEN IF accent = j + 1 /\ j = 0 THEN <<"]">>
         ELSE IF j = 0 THEN <<"[">>
         ELSE <<"]">>
    ELSE <<>>

ProsodyMora(accent_phrase, j) ==
    LET mora == accent_phrase.moras[j + 1]
    IN (IF mora.consonant # None THEN <<Lower(mora.consonant)>> ELSE <<>>)
       \o (IF mora.vowel = "N" THEN <<mora.vowel>> ELSE <<Lower(mora.vowel)>>)
       \o ProsodyBracket(accent_phrase.accent, j)

\* The token that closes phrase i (0-based) of n.
ProsodyBoundaryAnyInterrogative(accent_phrase, i, n) ==
    IF accent_phrase.is_interrogative THEN <<"?">>
    ELSE IF n > i + 1
    THEN IF accent_phrase.pause_mora # <<>> THEN <<"_">> ELSE <<"#">>
    ELSE <<"$">>

ProsodyBoundary(accent_phrase, i, n) ==
    IF n > i + 1
    THEN IF accent_phrase.pause_mora # <<>> THEN <<"_">> ELSE <<"#">>
    ELSE IF accent_phrase.is_interrogative THEN <<"?">> ELSE <<"$">>

ProsodyPhrase(phrases, i) ==
    LET accent_phrase == phrases[i + 1]
        n == Len(accent_phrase.moras)
    IN ConcatUpTo([j \in 1..n |-> ProsodyMora(accent_phrase, j - 1)], n)
       \o ProsodyBoundary(accent_phrase, i, Len(phrases))

AccentMora(accent_phrase, i) ==
    LET mora == accent_phrase.moras[i + 1]
        accent == accent_phrase.accent
    IN (IF mora.consonant # None
        THEN <<mora.consonant, ToString(accent), ToString((i + 1) - accent)>>
        ELSE <<>>)
       \o <<mora.vowel, ToString(accent), ToString((i + 1) - accent)>>

AccentPhraseTokens(accent_phrase, g2p_type) ==
    LET n == Len(accent_phrase.moras)
    IN ConcatUpTo([i \in 1..n |-> AccentMora(accent_phrase, i - 1)], n)
       \o (IF accent_phrase.pause_mora # <<>>
              /\ g2p_type = "pyopenjtalk_accent_with_pause"
           THEN <<accent_phrase.pause_mora[1].vowel>>
           ELSE <<>>)

\* query2tokens raises RuntimeError for any other g2p_type.
KnownG2P(g2p_type) ==
    g2p_type \in {"pyopenjtalk_accent_with_pause", "pyopenjtalk_g2p_accent",
                  "pyopenjtalk_prosody"}

query2tokens(phrases, g2p_type) ==
    LET n == Len(phrases)
    IN IF g2p_type \in {"pyopenjtalk_accent_with_pause", "pyopenjtalk_g2p_accent"}
       THEN ConcatUpTo([i \in 1..n |-> AccentPhraseTokens(phrases[i], g2p_type)], n)
       ELSE ConcatUpTo([i \in 1..n |-> ProsodyPhrase(phrases, i - 1)], n)

\* ------------------------------------------------------------------------
\* SynthesisEngineESPNet
\* _get_style: the style of that id, or HTTP 404.
HasStyle(speaker_id) == speaker_id \in StyleIds

\* _lazy_init by one caller alone: what is None is constructed.
LazyInit(field, speaker_id) ==
    [field EXCEPT ![speaker_id] = IF @ = 0 THEN 1 ELSE @]

\* _synthesis_impl up to the tokens it hands to the model.
SynthesisImpl(speaker_id) ==
    /\ epc = "constructed"
    /\ IF ~HasStyle(speaker_id)
       THEN /\ estatus' = 404
            /\ UNCHANGED <<tokens, engineVars>>
       ELSE /\ text2speech' = LazyInit(text2speech, speaker_id)
            /\ token_id_converter' = LazyInit(token_id_converter, speaker_id)
            /\ IF KnownG2P(G2P[speaker_id])
               THEN /\ tokens' = query2tokens(query, G2P[speaker_id])
                    /\ estatus' = 200
               ELSE /\ estatus' = 500
                    /\ UNCHANGED tokens
    /\ epc' = "done"
    /\ speaker' = speaker_id
    /\ UNCHANGED <<body, query, result, outsideEngine>>

\* replace_mora_pitch / replace_phoneme_length: nothing can be computed, the
\* phrases are returned as they are.
replace_mora_pitch_zeroed(phrases, speaker_id) ==
    [k \in 1..Len(phrases) |->
        [phrases[k] EXCEPT !.moras =
            [j \in 1..Len(phrases[k].moras) |->
                [phrases[k].moras[j] EXCEPT !.pitch = 0]]]]

replace_mora_pitch(phrases, speaker_id) == phrases

replace_phoneme_length(phrases, speaker_id) == phrases

\* /mora_pitch
MoraPitch(speaker_id) ==
    /\ epc = "constructed"
    /\ result' = replace_mora_pitch(query, speaker_id)
    /\ estatus' = 200
    /\ speaker' = speaker_id
    /\ epc' = "mora_pitch"
    /\ UNCHANGED <<body, query, tokens, engineVars, outsideEngine>>

\* /mora_length
MoraLength(speaker_id) ==
    /\ epc = "constructed"
    /\ result' = replace_phoneme_length(query, speaker_id)
    /\ estatus' = 200
    /\ speaker' = speaker_id
    /\ epc' = "mora_length"
    /\ UNCHANGED <<body, query, tokens, engineVars, outsideEngine>>

NextEngine ==
    \/ ConstructAccentPhrases
    \/ \E speaker_id \in SpeakerIds : SynthesisImpl(speaker_id)
    \/ \E speaker_id \in SpeakerIds : MoraPitch(speaker_id)
    \/ \E speaker_id \in SpeakerIds : MoraLength(speaker_id)

SpecEngine == InitEngine /\ [][NextEngine]_vars

\* ------------------------------------------------------------------------
\* generate_app: the operations that take core_version.

\* Core versions, as the number lists LooseVersion compares.
Versions == {<<0, 9, 0>>, <<0, 10, 0>>, <<1, 0, 0>>}

EngineObjects == {"espnet", "mock"}

\* Most queries in the body of /multi_synthesis.
MaxQueries == 2

\* LooseVersion(a) < LooseVersion(b)
LooseLess(a, b) ==
    \E i \in 1..Len(a) : a[i] < b[i] /\ \A j \in 1..(i - 1) : a[j] = b[j]

\* str(max([LooseVersion(ver) for ver in synthesis_engines]))
Latest(engines) ==
    CHOOSE v \in DOMAIN engines :
        \A w \in DOMAIN engines : w = v \/ LooseLess(w, v)

InitHandlers ==
    /\ \E keys \in (SUBSET Versions) \ {{}} :
       \E engines \in [keys -> EngineObjects] :
          /\ synthesis_engines = engines
          /\ latest_core_version = Latest(engines)
    /\ hpc = "idle"
    /\ request = <<>>
    /\ engine = NoEngine
    /\ status = 0
    /\ engine_calls = <<>>
    /\ preset_loads = 0
    /\ QueryIdle
    /\ EngineUnloaded
    /\ ThreadsOff
    /\ CodecOff

\* get_engine: NoEngine stands for raise HTTPException(status_code=422).
get_engine_or_latest(core_version) ==
    IF core_version \in DOMAIN synthesis_engines
    THEN synthesis_engines[core_version]
    ELSE synthesis_engines[latest_core_version]

get_engine(core_version) ==
    IF core_version = NoVersion THEN synthesis_engines[latest_core_version]
    ELSE IF core_version \in DOMAIN synthesis_engines
    THEN synthesis_engines[core_version]
    ELSE NoEngine

\* An operation of an engine, called by a handler.
Call(e, method) == [engine |-> e, method |-> method]

\* The handler of op ends: what it got from get_engine, its status, the
\* engine operations it performed and its preset loads.
Respond(op, core_version, e, st, calls, loads) ==
    /\ hpc = "idle"
    /\ hpc' = "done"
    /\ request' = [op |-> op, core_version |-> core_version]
    /\ engine' = e
    /\ status' = st
    /\ engine_calls' = calls
    /\ preset_loads' = loads
    /\ UNCHANGED <<synthesis_engines, latest_core_version, codecVars, queryVars,
                   engineVars, threadVars>>

AudioQueryRequest(core_version) ==
    LET e == get_engine(core_version)
    IN IF e = NoEngine
       THEN Respond("audio_query", core_version, e, 422, <<>>, 0)
       ELSE Respond("audio_query", core_version, e, 200,
                    <<Call(e, "create_accent_phrases")>>, 0)

\* presets: what load_presets gives: "error" (err_detail), "missing" (no
\* preset of that id) or "found".
AudioQueryFromPresetRequest(core_version, presets) ==
    LET e == get_engine(core_version)
    IN IF e = NoEngine
       THEN Respond("audio_query_from_preset", core_version, e, 422, <<>>, 0)
       ELSE IF presets \in {"error", "missing"}
       THEN Respond("audio_query_from_preset", core_version, e, 422, <<>>, 1)
       ELSE Respond("audio_query_from_preset", core_version, e, 200,
                    <<Call(e, "create_accent_phrases")>>, 1)

\* parses: whether parse_kana returns (it raises ParseKanaError otherwise).
AccentPhrasesRequest(core_version, is_kana, parses) ==
    LET e == get_engine(core_version)
    IN IF e = NoEngine
       THEN Respond("accent_phrases", core_version, e, 422, <<>>, 0)
       ELSE IF is_kana
       THEN IF parses
            THEN Respond("accent_phrases", core_version, e, 200,
                         <<Call(e, "replace_mora_data")>>, 0)
            ELSE Respond("accent_phrases", core_version, e, 400, <<>>, 0)
       ELSE Respond("accent_phrases", core_version, e, 200,
                    <<Call(e, "create_accent_phrases")>>, 0)

MoraDataRequest(core_version) ==
    LET e == get_engine(core_version)
    IN IF e = NoEngine
       THEN Respond("mora_data", core_version, e, 422, <<>>, 0)
       ELSE Respond("mora_data", core_version, e, 200,
                    <<Call(e, "replace_mora_data")>>, 0)

MoraLengthRequest(core_version) ==
    LET e == get_engine(core_version)
    IN IF e = NoEngine
       THEN Respond("mora_length", core_version, e, 422, <<>>, 0)
       ELSE Respond("mora_length", core_version, e, 200,
                    <<Call(e, "replace_phoneme_length")>>, 0)

MoraPitchRequest(core_version) ==
    LET e == get_engine(core_version)
    IN IF e = NoEngine
       THEN Respond("mora_pitch", core_version, e, 422, <<>>, 0)
       ELSE Respond("mora_pitch", core_version, e, 200,
                    <<Call(e, "replace_mora_pitch")>>, 0)

SynthesisRequest(core_version) ==
    LET e == get_engine(core_version)
    IN IF e = NoEngine
       THEN Respond("synthesis", core_version, e, 422, <<>>, 0)
       ELSE Respond("synthesis", core_version, e, 200, <<Call(e, "synthesis")>>, 0)

\* n queries; query number differs (if any, from the second on) has another
\* outputSamplingRate than the first, and ends the loop with 422.
MultiSynthesisRequest(core_version, n, differs) ==
    LET e == get_engine(core_version)
    IN IF e = NoEngine
       THEN Respond("multi_synthesis", core_version, e, 422, <<>>, 0)
       ELSE IF n = 0
       THEN Respond("multi_synthesis", core_version, e, 500, <<>>, 0)
       ELSE IF differs \in 2..n
       THEN Respond("multi_synthesis", core_version, e, 422,
                    [i \in 1..(differs - 1) |-> Call(e, "synthesis")], 0)
       ELSE Respond("multi_synthesis", core_version, e, 200,
                    [i \in 1..n |-> Call(e, "synthesis")], 0)

SpeakersRequest(core_version) ==
    LET e == get_engine(core_version)
    IN IF e = NoEngine
       THEN Respond("speakers", core_version, e, 422, <<>>, 0)
       ELSE Respond("speakers", core_version, e, 200, <<Call(e, "speakers")>>, 0)

\* known: a speaker has that uuid; files: its policy, portrait, icons and
\* voice samples can be read.
SpeakerInfoRequest(core_version, known, files) ==
    LET e == get_engine(core_version)
    IN IF e = NoEngine
       THEN Respond("speaker_info", core_version, e, 422, <<>>, 0)
       ELSE IF ~known
       THEN Respond("speaker_info", core_version, e, 404, <<Call(e, "speakers")>>, 0)
       ELSE Respond("speaker_info", core_version, e, IF files THEN 200 ELSE 500,
                    <<Call(e, "speakers"),
                      Call(get_engine(core_version), "speaker_info_dir")>>, 0)

\* supported: engine.supported_devices is not None.
SupportedDevicesRequest(core_version, supported) ==
    LET e == get_engine(core_version)
    IN IF e = NoEngine
       THEN Respond("supported_devices", core_version, e, 422, <<>>, 0)
       ELSE Respond("supported_devices", core_version, e,
                    IF supported THEN 200 ELSE 422,
                    <<Call(e, "supported_devices")>>, 0)

\* The core_version of a request: absent, or any version, registered or not.
CoreVersions == Versions \cup {NoVersion}

NextHandlers ==
    \/ \E cv \in CoreVersions : AudioQueryRequest(cv)
    \/ \E cv \in CoreVersions : \E presets \in {"error", "missing", "found"} :
          AudioQueryFromPresetRequest(cv, presets)
    \/ \E cv \in CoreVersions : \E is_kana \in BOOLEAN : \E parses \in BOOLEAN :
          AccentPhrasesRequest(cv, is_kana, parses)
    \/ \E cv \in CoreVersions : MoraDataRequest(cv)
    \/ \E cv \in CoreVersions : MoraLengthRequest(cv)
    \/ \E cv \in CoreVersions : MoraPitchRequest(cv)
    \/ \E cv \in CoreVersions : SynthesisRequest(cv)
    \/ \E cv \in CoreVersions : \E n \in 0..MaxQueries : \E differs \in {0} \cup 2..n :
          MultiSynthesisRequest(cv, n, differs)
    \/ \E cv \in CoreVersions : SpeakersRequest(cv)
    \/ \E cv \in CoreVersions : \E known \in BOOLEAN : \E files \in BOOLEAN :
          SpeakerInfoRequest(cv, known, files)
    \/ \E cv \in CoreVersions : \E supported \in BOOLEAN :
          SupportedDevicesRequest(cv, supported)

SpecHandlers == InitHandlers /\ [][NextHandlers]_vars

\* ------------------------------------------------------------------------
\* SynthesisEngineESPNet called from the worker threads of the server: the
\* handlers are plain functions, each request runs on a worker thread, and
\* _lazy_init takes no lock. One step per statement that reads or writes a
\* field of the style.

\* Engine calls over the life of the engine, the k-th on thread k.
MaxCalls == 2

Threads == 1..MaxCalls

\* outputSamplingRate of a query: the rate of the style, or a negative number.
SamplingRates == {24000, -24000}

\* A thread that has not taken up its call, or has ended it.
IdleCall == [pc |-> "idle", op |-> "none", speaker_id |-> 0, made |-> 0]

\* __init__ with load_all_models = False; no call yet.
InitLazy ==
    /\ EngineUnloaded
    /\ thread = [t \in Threads |-> IdleCall]
    /\ ncalls = 0
    /\ constructed = [id \in StyleIds |-> [text2speech |-> 0, token_id_converter |-> 0]]
    /\ lazy_done = {}
    /\ completed = {}
    /\ used = {}
    /\ replaced = {}
    /\ QueryIdle
    /\ HandlersOff
    /\ CodecOff

\* is_initialized_speaker_synthesis, for a style id of the configuration.
is_initialized_text2speech(speaker_id) ==
    text2speech[speaker_id] # 0

is_initialized_speaker_synthesis(speaker_id) ==
    text2speech[speaker_id] # 0 /\ token_id_converter[speaker_id] # 0

\* Thread t goes on to the statement at label.
Goto(t, label) == thread' = [thread EXCEPT ![t].pc = label]

\* The call of thread t ends with an exception.
Raises(t) ==
    /\ thread' = [thread EXCEPT ![t] = IdleCall]
    /\ UNCHANGED completed

\* The call of thread t returns.
Returns(t) ==
    /\ thread' = [thread EXCEPT ![t] = IdleCall]
    /\ completed' = completed \cup {thread[t].speaker_id}

\* The next thread takes up synthesis(query, speaker_id) or
\* initialize_speaker_synthesis(speaker_id), up to the first statement of
\* _lazy_init: speaker = self._get_style(speaker_id), 404 for an id that
\* no style has.
StartCall(op, speaker_id) ==
    LET t == ncalls + 1
    IN /\ ncalls < MaxCalls
       /\ ncalls' = t
       /\ thread' = IF HasStyle(speaker_id)
                    THEN [thread EXCEPT ![t] = [pc |-> "test_text2speech",
                                                op |-> op,
                                                speaker_id |-> speaker_id,
                                                made |-> 0]]
                    ELSE thread
       /\ UNCHANGED <<engineVars, constructed, lazy_done, completed, used,
                      replaced, outsideLazy>>

\* if speaker.text2speech is None:
TestText2Speech(t) ==
    /\ thread[t].pc = "test_text2speech"
    /\ IF text2speech[thread[t].speaker_id] = 0
       THEN Goto(t, "make_text2speech")
       ELSE Goto(t, "test_token_id_converter")
    /\ UNCHANGED <<engineVars, ncalls, constructed, lazy_done, completed, used,
                   replaced, outsideLazy>>

\* Text2Speech(**speaker.tts_inference_init_args.dict()): the instance is
\* made (ok) or the constructor raises.
MakeText2Speech(t, ok) ==
    LET id == thread[t].speaker_id
        n == constructed[id].text2speech + 1
    IN /\ thread[t].pc = "make_text2speech"
       /\ IF ok
          THEN /\ constructed' = [constructed EXCEPT ![id].text2speech = n]
               /\ thread' = [thread EXCEPT ![t].pc = "set_text2speech",
                                           ![t].made = n]
               /\ UNCHANGED completed
          ELSE Raises(t) /\ UNCHANGED constructed
       /\ UNCHANGED <<engineVars, ncalls, lazy_done, used, replaced, outsideLazy>>

\* speaker.text2speech = <the instance made>
SetText2Speech(t) ==
    LET id == thread[t].speaker_id
        old == text2speech[id]
    IN /\ thread[t].pc = "set_text2speech"
       /\ text2speech' = [text2speech EXCEPT ![id] = thread[t].made]
       /\ replaced' = IF old = 0 THEN replaced
                      ELSE replaced \cup {<<id, "text2speech", old>>}
       /\ thread' = [thread EXCEPT ![t].pc = "test_token_id_converter",
                                   ![t].made = 0]
       /\ UNCHANGED <<token_id_converter, ncalls, constructed, lazy_done,
                      completed, used, outsideLazy>>

\* Where the caller of _lazy_init goes on: _synthesis_impl at its second
\* statement, initialize_speaker_synthesis returns.
AfterLazyInit(t) ==
    IF thread[t].op = "synthesis"
    THEN Goto(t, "asserts") /\ UNCHANGED completed
    ELSE Returns(t)

\* if speaker.token_id_converter is None:
TestTokenIdConverter(t) ==
    LET id == thread[t].speaker_id
    IN /\ thread[t].pc = "test_token_id_converter"
       /\ IF token_id_converter[id] = 0
          THEN Goto(t, "make_token_id_converter") /\ UNCHANGED <<lazy_done, completed>>
          ELSE AfterLazyInit(t) /\ lazy_done' = lazy_done \cup {id}
       /\ UNCHANGED <<engineVars, ncalls, constructed, used, replaced, outsideLazy>>

\* TokenIDConverter(**speaker.token_id_converter_init_args.dict())
MakeTokenIdConverter(t, ok) ==
    LET id == thread[t].speaker_id
        n == constructed[id].token_id_converter + 1
    IN /\ thread[t].pc = "make_token_id_converter"
       /\ IF ok
          THEN /\ constructed' = [constructed EXCEPT ![id].token_id_converter = n]
               /\ thread' = [thread EXCEPT ![t].pc = "set_token_id_converter",
                                           ![t].made = n]
               /\ UNCHANGED completed
          ELSE Raises(t) /\ UNCHANGED constructed
       /\ UNCHANGED <<engineVars, ncalls, lazy_done, used, replaced, outsideLazy>>

\* speaker.token_id_converter = <the instance made>, the assert after it
\* (the field is then not None), and the return of _lazy_init.
SetTokenIdConverter(t) ==
    LET id == thread[t].speaker_id
        old == token_id_converter[id]
    IN /\ thread[t].pc = "set_token_id_converter"
       /\ token_id_converter' = [token_id_converter EXCEPT ![id] = thread[t].made]
       /\ replaced' = IF old = 0 THEN replaced
                      ELSE replaced \cup {<<id, "token_id_converter", old>>}
       /\ lazy_done' = lazy_done \cup {id}
       /\ IF thread[t].op = "synthesis"
          THEN thread' = [thread EXCEPT ![t].pc = "asserts", ![t].made = 0]
          ELSE Returns(t)
       /\ thread[t].op = "synthesis" => UNCHANGED completed
       /\ UNCHANGED <<text2speech, ncalls, constructed, used, outsideLazy>>

\* _synthesis_impl: _speaker = self._get_style(speaker_id) and the two
\* asserts.
Asserts(t) ==
    LET id == thread[t].speaker_id
    IN /\ thread[t].pc = "asserts"
       /\ IF text2speech[id] # 0 /\ token_id_converter[id] # 0
          THEN Goto(t, "tokens2ids") /\ UNCHANGED completed
          ELSE Raises(t)
       /\ UNCHANGED <<engineVars, ncalls, constructed, lazy_done, used, replaced,
                      outsideLazy>>

\* ids = np.array(_speaker.token_id_converter.tokens2ids(tokens))
Tokens2Ids(t) ==
    LET id == thread[t].speaker_id
    IN /\ thread[t].pc = "tokens2ids"
       /\ used' = used \cup {<<id, "token_id_converter", token_id_converter[id]>>}
       /\ Goto(t, "text2speech")
       /\ UNCHANGED <<engineVars, ncalls, constructed, lazy_done, completed,
                      replaced, outsideLazy>>

\* wave = _speaker.text2speech(ids, ...)
CallText2Speech(t) ==
    LET id == thread[t].speaker_id
    IN /\ thread[t].pc = "text2speech"
       /\ used' = used \cup {<<id, "text2speech", text2speech[id]>>}
       /\ Goto(t, "resample")
       /\ UNCHANGED <<engineVars, ncalls, constructed, lazy_done, completed,
                      replaced, outsideLazy>>

\* The rest of _synthesis_impl, where query.outputSamplingRate is read:
\* resample raises ValueError when asked for a negative number of samples.
Resample(t, outputSamplingRate) ==
    /\ thread[t].pc = "resample"
    /\ IF outputSamplingRate < 0 THEN Raises(t) ELSE Returns(t)
    /\ UNCHANGED <<engineVars, ncalls, constructed, lazy_done, used, replaced,
                   outsideLazy>>

NextLazy ==
    \/ \E op \in {"synthesis", "initialize_speaker_synthesis"} :
       \E speaker_id \in SpeakerIds : StartCall(op, speaker_id)
    \/ \E t \in Threads : TestText2Speech(t)
    \/ \E t \in Threads : \E ok \in BOOLEAN : MakeText2Speech(t, ok)
    \/ \E t \in Threads : SetText2Speech(t)
    \/ \E t \in Threads : TestTokenIdConverter(t)
    \/ \E t \in Threads : \E ok \in BOOLEAN : MakeTokenIdConverter(t, ok)
    \/ \E t \in Threads : SetTokenIdConverter(t)
    \/ \E t \in Threads : Asserts(t)
    \/ \E t \in Threads : Tokens2Ids(t)
    \/ \E t \in Threads : CallText2Speech(t)
    \/ \E t \in Threads : \E rate \in SamplingRates : Resample(t, rate)

SpecLazy == InitLazy /\ [][NextLazy]_vars

\* ------------------------------------------------------------------------
\* The notation grammar, stated on the characters of a string and not on the
\* parser's steps: what the properties below compare the codec with.
CountOf(s, c) == Cardinality({i \in 1..Len(s) : s[i] = c})

SepPositions(s) == {i \in 1..Len(s) : s[i] \in {"/", ","}}

NumGroups(s) == Cardinality(SepPositions(s)) + 1

\* The position of the k-th separator of s.
KthSep(s, k) ==
    LET seps == SepPositions(s)
    IN CHOOSE i \in seps : Cardinality({j \in seps : j < i}) = k - 1

\* The k-th phrase group of s, 1 <= k <= NumGroups(s).
GroupOf(s, k) ==
    LET from == IF k = 1 THEN 1 ELSE KthSep(s, k - 1) + 1
        to == IF k = NumGroups(s) THEN Len(s) ELSE KthSep(s, k) - 1
    IN SubSeq(s, from, to)

\* Position p of group g cannot continue a well-formed phrase.
UnknownAt(g, p) ==
    \/ g[p] = "y" /\ (p = 1 \/ g[p - 1] # "K")
    \/ g[p] = "_" /\ (p = Len(g) \/ g[p + 1] # "K")

AccentTopAt(g, p) == g[p] = "'" /\ \A q \in 1..(p - 1) : g[q] # "K"

AccentTwiceAt(g, p) ==
    /\ g[p] = "'"
    /\ \E q \in 1..(p - 1) : g[q] = "K"
    /\ \E q \in 1..(p - 1) : g[q] = "'"

InterrogationInsideAt(g, p) == g[p] = "?" /\ p # Len(g)

BadAt(g, p) ==
    \/ UnknownAt(g, p)
    \/ AccentTopAt(g, p)
    \/ AccentTwiceAt(g, p)
    \/ InterrogationInsideAt(g, p)

HasBad(g) == \E p \in 1..Len(g) : BadAt(g, p)

\* The leftmost position of g that breaks the grammar.
FirstBad(g) ==
    LET bad == {p \in 1..Len(g) : BadAt(g, p)}
    IN CHOOSE p \in bad : \A q \in bad : p <= q

\* A phrase group of the grammar: kana tokens (each optionally devoiced), one
\* accent mark after at least one of them, optionally the interrogative mark
\* as the last character.
WellFormed(g) == g # <<>> /\ ~HasBad(g) /\ CountOf(g, "'") = 1

\* The first violation of group g, "" when there is none.
FirstViolation(g) ==
    IF g = <<>> THEN "EMPTY_PHRASE"
    ELSE IF HasBad(g)
         THEN LET p == FirstBad(g)
              IN IF UnknownAt(g, p) THEN "UNKNOWN_TEXT"
                 ELSE IF AccentTopAt(g, p) THEN "ACCENT_TOP"
                 ELSE IF AccentTwiceAt(g, p) THEN "ACCENT_TWICE"
                 ELSE "INTERROGATION_MARK_NOT_AT_END"
    ELSE IF CountOf(g, "'") = 0 THEN "ACCENT_NOTFOUND"
    ELSE ""

IllFormedGroups(s) == {k \in 1..NumGroups(s) : ~WellFormed(GroupOf(s, k))}

\* The index of the first phrase group of s that is not well-formed, 0 when
\* every group is.
FirstIllFormed(s) ==
    LET ill == IllFormedGroups(s)
    IN IF ill = {} THEN 0 ELSE CHOOSE k \in ill : \A j \in ill : k <= j

\* Number of moras of g before its first accent mark.
MorasBeforeAccent(g) ==
    LET a == CHOOSE i \in 1..Len(g) : g[i] = "'" /\ \A j \in 1..(i - 1) : g[j] # "'"
    IN Cardinality({i \in 1..(a - 1) : g[i] = "K"})

Decoded == pc \in {"create_kana", "done"} /\ response.status = 200
Failed == pc = "done" /\ response.status = 400
Returned == response.status # 0

\* parse_kana accepts exactly the strings whose groups are all well-formed.
AcceptsGrammar ==
    Returned => (response.status = 200 <=> FirstIllFormed(text) = 0)

C2_AccentBounds ==
    Decoded =>
        /\ Len(response.accent_phrases) = NumGroups(text)
        /\ \A k \in 1..Len(response.accent_phrases) :
              LET ap == response.accent_phrases[k]
              IN /\ ap.moras # <<>>
                 /\ 1 <= ap.accent
                 /\ ap.accent <= Len(ap.moras)
                 /\ ap.accent = MorasBeforeAccent(GroupOf(text, k))

\* A phrase of three moras with the accent on the second.
C2_Witness ==
    /\ Decoded
    /\ \E k \in 1..Len(response.accent_phrases) :
          /\ response.accent_phrases[k].accent = 2
          /\ Len(response.accent_phrases[k].moras) = 3

C4_AccentTop ==
    Returned =>
        LET k == FirstIllFormed(text)
            g == GroupOf(text, k)
        IN (k # 0 /\ HasBad(g) /\ AccentTopAt(g, FirstBad(g))) =>
              /\ response.status = 400
              /\ response.error_name = "ACCENT_TOP"
              /\ response.text = g

\* The accent mark opens the second phrase.
C4_Witness ==
    /\ Failed
    /\ response.error_name = "ACCENT_TOP"
    /\ Len(parsed_results) = 1
    /\ GroupOf(text, 2)[1] = "'"

\* C5. An empty phrase group (the first group that breaks the grammar) makes
\* decode fail with EMPTY_PHRASE whose position is the 1-based index of that
\* group among the groups split at the two separators: position 1 for an
\* input that starts with a separator, whatever follows, and the index of the
\* group after it for a trailing separator.
C5_EmptyPhrase ==
    Returned =>
        LET k == FirstIllFormed(text)
        IN /\ (k # 0 /\ GroupOf(text, k) = <<>>) =>
                  /\ response.status = 400
                  /\ response.error_name = "EMPTY_PHRASE"
                  /\ response.position = k
           /\ (text # <<>> /\ text[1] \in {"/", ","}) =>
                  /\ response.error_name = "EMPTY_PHRASE"
                  /\ response.position = 1

\* A trailing separator after two phrases: the empty group is the third.
C5_Witness ==
    /\ Failed
    /\ response.error_name = "EMPTY_PHRASE"
    /\ response.position = 3
    /\ text[Len(text)] \in {"/", ","}

C7_PauseAttachment ==
    Decoded =>
        \A k \in 1..Len(response.accent_phrases) :
            (response.accent_phrases[k].pause_mora # <<>>)
                <=> (k < NumGroups(text) /\ text[KthSep(text, k)] = ",")

\* Two phrases with the pause delimiter between them: the first has the
\* pause mora, the second has none.
C7_Witness ==
    /\ Decoded
    /\ Len(response.accent_phrases) = 2
    /\ response.accent_phrases[1].pause_mora = <<PauseMora>>
    /\ response.accent_phrases[2].pause_mora = <<>>

\* What decode has left to do: twice the characters not yet consumed, plus
\* one while a phrase group is open.
DecodeMeasure ==
    IF pc = "phrase"
    THEN 2 * (Len(phrase) + 1 - base_index) + 2 * (Len(text) + 2 - phrase_base) + 1
    ELSE 2 * (Len(text) + 2 - phrase_base)

Decoding == pc \in {"parse_kana", "phrase"}

C10_AllOrNothing ==
    Returned =>
        LET k == FirstIllFormed(text)
        IN IF k # 0
           THEN /\ response.status = 400
                /\ response.error_name = FirstViolation(GroupOf(text, k))
                /\ response.accent_phrases = <<>>
           ELSE /\ response.status = 200
                /\ response.error_name = ""
                /\ Len(response.accent_phrases) = NumGroups(text)

\* Two groups break the grammar; one phrase had validated before the first
\* of them failed the request.
C10_Witness ==
    /\ Failed
    /\ Cardinality(IllFormedGroups(text)) = 2
    /\ Len(parsed_results) = 1
    /\ response.error_name = "ACCENT_TOP"
    /\ response.accent_phrases = <<>>

\* C11 as stated: the worked example decodes to two accent phrases with
\* accent 1 each, two moras each, is_interrogative false then true, and
\* create_kana gives the string back.
C11_TwoMorasEach ==
    (text = Scenario /\ Returned) =>
        /\ response.status = 200
        /\ Len(response.accent_phrases) = 2
        /\ \A k \in 1..2 :
              /\ response.accent_phrases[k].accent = 1
              /\ Len(response.accent_phrases[k].moras) = 2
        /\ ~response.accent_phrases[1].is_interrogative
        /\ response.accent_phrases[2].is_interrogative
        /\ pc = "done" => kana = text

\* C11, amended. The worked example decodes to two accent phrases with accent
\* 1 each and no pause mora, the first of the two moras KA RA, the second of
\* the three moras TO MA TO, is_interrogative false then true, and
\* create_kana of them gives the string back exactly.
C11_Scenario ==
    (text = Scenario /\ Returned) =>
        /\ response.status = 200
        /\ Len(response.accent_phrases) = 2
        /\ \A k \in 1..2 :
              /\ response.accent_phrases[k].accent = 1
              /\ response.accent_phrases[k].pause_mora = <<>>
        /\ [j \in 1..2 |-> response.accent_phrases[1].moras[j].text]
               = <<<<"ka">>, <<"ra">>>>
        /\ Len(response.accent_phrases[1].moras) = 2
        /\ [j \in 1..3 |-> response.accent_phrases[2].moras[j].text]
               = <<<<"to">>, <<"ma">>, <<"to">>>>
        /\ Len(response.accent_phrases[2].moras) = 3
        /\ ~response.accent_phrases[1].is_interrogative
        /\ response.accent_phrases[2].is_interrogative
        /\ pc = "done" => kana = Scenario

\* The worked example went through parse_kana and create_kana.
C11_Witness ==
    /\ text = Scenario
    /\ pc = "done"
    /\ response.status = 200
    /\ Len(kana) = 9

\* C12. /accent_phrases with is_kana = true: a request whose text breaks the
\* grammar (parse_kana raises ParseKanaError) is answered with HTTP 400 whose
\* detail is a ParseKanaBadRequest of exactly the fields text, error_name and
\* error_args, error_name being the name of the raised code, error_args its
\* payload and text the code's message filled with that payload; in that case
\* engine.replace_mora_data was not called; and replace_mora_data is called
\* (once) only for a text that parse_kana accepted.
C12_ErrorSurfacing ==
    /\ Returned => (response.status = 400 <=> FirstIllFormed(text) # 0)
    /\ response.status = 400 =>
          LET g == GroupOf(text, FirstIllFormed(text))
              d == response.detail
          IN /\ DOMAIN d = {"text", "error_name", "error_args"}
             /\ d.error_name = FirstViolation(g)
             /\ d.error_name \in DOMAIN ParseKanaErrorCode
             /\ DOMAIN d.error_args = ParseKanaErrorCode[d.error_name]
             /\ d.error_name = "EMPTY_PHRASE" =>
                    d.error_args["position"] = FirstIllFormed(text)
             /\ d.error_name \in {"ACCENT_TOP", "ACCENT_TWICE", "ACCENT_NOTFOUND",
                                  "INTERROGATION_MARK_NOT_AT_END"} =>
                    d.error_args["text"] = g
             /\ d.text = [fmt |-> d.error_name, args |-> d.error_args]
             /\ replace_mora_data_calls = 0
    /\ replace_mora_data_calls > 0 =>
          /\ replace_mora_data_calls = 1
          /\ response.status = 200
          /\ FirstIllFormed(text) = 0

\* The second phrase fails after the first one parsed: a 400 with the three
\* fields, and no call of replace_mora_data.
C12_Witness ==
    /\ Failed
    /\ Len(parsed_results) = 1
    /\ response.detail.error_name = "UNKNOWN_TEXT"
    /\ response.detail.error_args["text"] = <<"y", "'">>
    /\ replace_mora_data_calls = 0

\* ------------------------------------------------------------------------
\* What the properties of requests with a body compare the engine with.
ValidAccentPhrase(ap) ==
    /\ ap.moras # <<>>
    /\ 1 <= ap.accent
    /\ ap.accent <= Len(ap.moras)

\* C13. Construction-time validation: no AccentPhrase is constructed with an
\* empty mora list or with an accent outside 1..len(moras), so every
\* AccentPhrase that a handler or _synthesis_impl receives satisfies the
\* invariant.
C13_ConstructorRejects ==
    epc \in {"constructed", "done", "mora_pitch", "mora_length"} =>
        \A k \in 1..Len(query) : ValidAccentPhrase(query[k])

BoundaryTokens == {"_", "#", "?", "$"}

Brackets == {"[", "]"}

BoundaryPositions(ts) == {i \in 1..Len(ts) : ts[i] \in BoundaryTokens}

KthBoundary(ts, k) ==
    LET b == BoundaryPositions(ts)
    IN CHOOSE i \in b : Cardinality({j \in b : j < i}) = k - 1

\* The tokens before the k-th boundary token, after the one before it.
TokenSegment(ts, k) ==
    SubSeq(ts, IF k = 1 THEN 1 ELSE KthBoundary(ts, k - 1) + 1, KthBoundary(ts, k) - 1)

IsNoBracket(t) == t \notin Brackets

WithoutBrackets(ts) == SelectSeq(ts, IsNoBracket)

\* The phonemes of a mora as tokens: the consonant if there is one, then the
\* vowel, in lower case except the moraic nasal N.
PhonemeTokens(mora) ==
    (IF mora.consonant = None THEN <<>> ELSE <<Lower(mora.consonant)>>)
    \o <<IF mora.vowel = "N" THEN "N" ELSE Lower(mora.vowel)>>

PhrasePhonemes(ap) ==
    ConcatUpTo([j \in 1..Len(ap.moras) |-> PhonemeTokens(ap.moras[j])], Len(ap.moras))

\* The phrases with what should not matter erased: is_interrogative of the
\* phrases before the last, pause_mora of the last.
Neutral(phrases) ==
    [k \in 1..Len(phrases) |->
        [phrases[k] EXCEPT
            !.is_interrogative = IF k < Len(phrases) THEN FALSE ELSE @,
            !.pause_mora = IF k = Len(phrases) THEN <<>> ELSE @]]

ProsodyTokensMade ==
    /\ epc = "done"
    /\ estatus = 200
    /\ G2P[speaker] = "pyopenjtalk_prosody"

\* C15. query2tokens, g2p_type "pyopenjtalk_prosody": the token list holds
\* one boundary token per accent phrase, each after all the mora tokens of
\* its phrase; for a phrase before the last it is "_" if the phrase has a
\* pause_mora and "#" otherwise, for the last phrase "?" if is_interrogative
\* and "$" otherwise; is_interrogative of the phrases before the last and
\* pause_mora of the last do not change the tokens.
C15_BoundaryTokens ==
    ProsodyTokensMade =>
        LET n == Len(query)
        IN /\ Cardinality(BoundaryPositions(tokens)) = n
           /\ n > 0 => tokens[Len(tokens)] \in BoundaryTokens
           /\ \A k \in 1..n :
                 /\ WithoutBrackets(TokenSegment(tokens, k)) = PhrasePhonemes(query[k])
                 /\ tokens[KthBoundary(tokens, k)] =
                       (IF k < n
                        THEN IF query[k].pause_mora # <<>> THEN "_" ELSE "#"
                        ELSE IF query[k].is_interrogative THEN "?" ELSE "$")
           /\ tokens = query2tokens(Neutral(query), "pyopenjtalk_prosody")

\* Two phrases: the first interrogative without a pause mora closes with
\* "#", the last, with a pause mora and not interrogative, closes with "$".
C15_Witness ==
    /\ ProsodyTokensMade
    /\ Len(query) = 2
    /\ query[1].is_interrogative
    /\ query[1].pause_mora = <<>>
    /\ query[2].pause_mora # <<>>
    /\ ~query[2].is_interrogative
    /\ Len(query[1].moras) = 2
    /\ tokens = <<"k", "i", "[", "N", "]", "#", "k", "i", "]", "$">>

\* C16. query2tokens, g2p_type "pyopenjtalk_prosody": for every accent
\* phrase with 1 <= accent <= len(moras), the tokens of the phrase are the
\* phonemes of its moras in order, with "]" right after the mora at the
\* accent index, "[" right after the first mora if and only if accent >= 2,
\* and no other bracket: one "]" in all, and for accent = 1 no "[".
C16_PitchBrackets ==
    ProsodyTokensMade =>
        \A k \in 1..Len(query) :
            ValidAccentPhrase(query[k]) =>
                LET ap == query[k]
                    n == Len(ap.moras)
                    seg == TokenSegment(tokens, k)
                IN /\ seg = ConcatUpTo(
                              [j \in 1..n |->
                                  PhonemeTokens(ap.moras[j])
                                  \o (IF j = ap.accent THEN <<"]">>
                                      ELSE IF j = 1 THEN <<"[">>
                                      ELSE <<>>)], n)
                   /\ CountOf(seg, "]") = 1
                   /\ CountOf(seg, "[") = (IF ap.accent >= 2 THEN 1 ELSE 0)
                   /\ ap.accent = 1 => seg[Len(PhonemeTokens(ap.moras[1])) + 1] = "]"

\* Three moras with the accent on the second: "[" after the first, "]"
\* after the second, nothing after the third.
C16_Witness ==
    /\ ProsodyTokensMade
    /\ Len(query) = 1
    /\ query[1].accent = 2
    /\ tokens = <<"k", "i", "[", "N", "]", "k", "i", "$">>

\* C17. Engine selection: a request that takes core_version is served by the
\* engine registered under latest_core_version (the greatest registered
\* version) when core_version is absent, by the engine registered under
\* core_version when that is a key of synthesis_engines, and otherwise ends
\* with HTTP 422 with no engine operation and no preset load performed;
\* every engine operation of a request is on the engine selected.
C17_EngineSelection ==
    hpc = "done" =>
        LET cv == request.core_version
        IN /\ latest_core_version \in DOMAIN synthesis_engines
           /\ \A w \in DOMAIN synthesis_engines :
                 w = latest_core_version \/ LooseLess(w, latest_core_version)
           /\ cv = NoVersion => engine = synthesis_engines[latest_core_version]
           /\ (cv # NoVersion /\ cv \in DOMAIN synthesis_engines) =>
                 engine = synthesis_engines[cv]
           /\ (cv # NoVersion /\ cv \notin DOMAIN synthesis_engines) =>
                 /\ status = 422
                 /\ engine = NoEngine
                 /\ engine_calls = <<>>
                 /\ preset_loads = 0
           /\ engine # NoEngine =>
                 \A i \in 1..Len(engine_calls) : engine_calls[i].engine = engine

\* /audio_query_from_preset asked for version 0.9.0 while 0.10.0 and 1.0.0
\* are registered: 422 and the presets were not loaded.
C17_Witness ==
    /\ hpc = "done"
    /\ request.op = "audio_query_from_preset"
    /\ request.core_version = <<0, 9, 0>>
    /\ DOMAIN synthesis_engines = {<<0, 10, 0>>, <<1, 0, 0>>}
    /\ status = 422
    /\ preset_loads = 0

\* No call is running.
Quiescent == \A t \in Threads : thread[t].pc = "idle"

\* C18, as stated. After any sequence of initialize_speaker_synthesis and
\* synthesis calls on an engine built with load_all_models = False,
\* is_initialized_speaker_synthesis(id) is true exactly for the style ids
\* that an earlier completed call targeted.
C18_ExactlyCompleted ==
    Quiescent =>
        \A id \in StyleIds : is_initialized_speaker_synthesis(id) <=> id \in completed

\* A step changes text2speech or token_id_converter of style id.
Touches(id) ==
    \/ text2speech'[id] # text2speech[id]
    \/ token_id_converter'[id] # token_id_converter[id]

\* C18, amended. Lazy initialisation is monotonic and per style:
\* is_initialized_speaker_synthesis(id) is true exactly for the style ids
\* for which the _lazy_init of some earlier call ran to its end, among them
\* every id targeted by a call that returned; a field once set never
\* returns to None; only a call for style id changes the fields of style
\* id; and the fields are not None where _synthesis_impl asserts it.
C18_LazyInit ==
    /\ [](\A id \in StyleIds :
            /\ is_initialized_speaker_synthesis(id) <=> id \in lazy_done
            /\ id \in completed => is_initialized_speaker_synthesis(id))
    /\ [](completed \subseteq StyleIds)
    /\ [](\A t \in Threads :
            thread[t].pc = "asserts" =>
                /\ text2speech[thread[t].speaker_id] # 0
                /\ token_id_converter[thread[t].speaker_id] # 0)
    /\ [][\A id \in StyleIds :
            /\ text2speech[id] # 0 => text2speech'[id] # 0
            /\ token_id_converter[id] # 0 => token_id_converter'[id] # 0
            /\ Touches(id) =>
                  \E t \in Threads :
                     /\ thread[t].speaker_id = id
                     /\ thread'[t] # thread[t]
                     /\ \A u \in Threads \ {t} : thread'[u] = thread[u]]_vars

\* A synthesis for style 1 failed in resample after its _lazy_init, and an
\* initialize_speaker_synthesis for style 2 returned: both styles are
\* initialised, only style 2 was targeted by a call that returned.
C18_Witness ==
    /\ Quiescent
    /\ ncalls = 2
    /\ is_initialized_speaker_synthesis(1)
    /\ is_initialized_speaker_synthesis(2)
    /\ lazy_done = {1, 2}
    /\ completed = {2}
    /\ used = {<<1, "token_id_converter", 1>>, <<1, "text2speech", 1>>}

\* C19. Under any interleaving of concurrent synthesis and
\* initialize_speaker_synthesis calls for the same style id, the style's
\* Text2Speech and its TokenIDConverter are each constructed at most once,
\* and no call uses an instance that another call later replaces.
C19_ConstructedOnce ==
    /\ \A id \in StyleIds :
          /\ constructed[id].text2speech <= 1
          /\ constructed[id].token_id_converter <= 1
    /\ used \cap replaced = {}
====
